---- MODULE Spec2Model ----
(***************************************************************************)
(* State machine of src/src/components/Calculator.tsx: the four useState   *)
(* cells of the Calculator component and its five handlers.                *)
(*                                                                         *)
(* Strings are sequences of one-character strings.  A JavaScript number is *)
(* a record [k, n, d]: k = "num" stands for the double nearest to the      *)
(* rational n/d (n/d in lowest terms, d > 0), k = "-0" for negative zero,  *)
(* k = "NaN" for NaN.  Arithmetic is carried out only where the IEEE-754   *)
(* result is determined by the rational result (both operands exactly      *)
(* representable); everything else is OutOfModel and is cut off by the     *)
(* guards of the actions.                                                  *)
(***************************************************************************)
EXTENDS Integers, Sequences, FiniteSets, TLC

VARIABLES display, previousValue, operation, waitingForNewValue, calls

vars == <<display, previousValue, operation, waitingForNewValue, calls>>

(* ---------------------------- bounds ----------------------------------- *)

\* largest magnitude of a computed result the model represents
MaxVal == 1000
\* largest number of fraction digits of a computed result
MaxFrac == 3
\* longest display inputNumber may build by appending (general specification)
MaxLen == 2
\* largest magnitude of a result kept in the general specification
MaxOperand == 12
\* longest sequence of digit calls in the digit-only specification
MaxDigits == 5

(* ---------------------------- alphabets -------------------------------- *)

DigitChars == <<"0", "1", "2", "3", "4", "5", "6", "7", "8", "9">>

Digits == {DigitChars[i] : i \in 1..10}

NumberButtons == Digits \cup {"."}

Operators == {"+", "-", "*", "/"}

\* digits pressed in the general specification
Pressed == {"0", "5", "."}

(* ---------------------------- numbers ---------------------------------- *)

Num(n, d) == [k |-> "num", n |-> n, d |-> d]

Zero == Num(0, 1)

NegZero == [k |-> "-0", n |-> 0, d |-> 1]

NaN == [k |-> "NaN", n |-> 0, d |-> 1]

null == [k |-> "null", n |-> 0, d |-> 1]

ErrorSentinel == [k |-> "Error", n |-> 0, d |-> 1]

OutOfModel == [k |-> "OutOfModel", n |-> 0, d |-> 1]

NoOperation == "null"

Abs(i) == IF i < 0 THEN -i ELSE i

RECURSIVE GCD(_, _)
GCD(a, b) == IF b = 0 THEN a ELSE GCD(b, a % b)

RECURSIVE Pow10(_)
Pow10(k) == IF k = 0 THEN 1 ELSE 10 * Pow10(k - 1)

RECURSIVE IsPow2(_)
IsPow2(d) == IF d = 1 THEN TRUE ELSE IF d % 2 = 1 THEN FALSE ELSE IsPow2(d \div 2)

\* the rational n/d (d # 0) in lowest terms with a positive denominator
Norm(n, d) ==
  LET g == GCD(Abs(n), Abs(d))
      s == IF d < 0 THEN -1 ELSE 1
  IN  Num(s * (n \div g), s * (d \div g))

IsZero(x) == x.k = "-0" \/ (x.k = "num" /\ x.n = 0)

IsNegative(x) == x.k = "-0" \/ (x.k = "num" /\ x.n < 0)

\* the double is exactly the rational: a dyadic rational of small magnitude
Exact(x) == x.k = "-0" \/ (x.k = "num" /\ IsPow2(x.d))

\* a result the model represents: magnitude at most MaxVal and a decimal
\* expansion that terminates within MaxFrac digits, so that the nearest
\* double prints as that expansion
InRange(x) == Pow10(MaxFrac) % x.d = 0 /\ Abs(x.n) <= MaxVal * x.d

SignedZero(neg) == IF neg THEN NegZero ELSE Zero

Rounded(x) == IF InRange(x) THEN x ELSE OutOfModel

(* ---------------------------- arithmetic ------------------------------- *)

\* firstValue + secondValue
Plus(a, b) ==
  IF a.k = "NaN" \/ b.k = "NaN" THEN NaN
  ELSE IF ~(Exact(a) /\ Exact(b)) THEN OutOfModel
  ELSE LET r == Norm(a.n * b.d + b.n * a.d, a.d * b.d)
       IN  IF r.n = 0
           THEN SignedZero(a.k = "-0" /\ b.k = "-0")
           ELSE Rounded(r)

\* -x
Negate(x) ==
  IF x.k = "NaN" THEN NaN
  ELSE IF x.k = "-0" THEN Zero
  ELSE IF x.n = 0 THEN NegZero
  ELSE Num(-x.n, x.d)

\* firstValue - secondValue
Minus(a, b) == Plus(a, Negate(b))

\* firstValue * secondValue
Times(a, b) ==
  IF a.k = "NaN" \/ b.k = "NaN" THEN NaN
  ELSE IF ~(Exact(a) /\ Exact(b)) THEN OutOfModel
  ELSE IF IsZero(a) \/ IsZero(b)
       THEN SignedZero(IsNegative(a) # IsNegative(b))
       ELSE Rounded(Norm(a.n * b.n, a.d * b.d))

\* firstValue / secondValue, secondValue not a zero
Divide(a, b) ==
  IF a.k = "NaN" \/ b.k = "NaN" THEN NaN
  ELSE IF ~(Exact(a) /\ Exact(b)) THEN OutOfModel
  ELSE IF IsZero(a)
       THEN SignedZero(IsNegative(a) # IsNegative(b))
       ELSE Rounded(Norm(a.n * b.d, a.d * b.n))

\* calculate with the operands of the subtraction exchanged
calculateSwapped(firstValue, secondValue, op) ==
  CASE op = "+" -> Plus(firstValue, secondValue)
    [] op = "-" -> Minus(secondValue, firstValue)
    [] op = "*" -> Times(firstValue, secondValue)
    [] op = "/" -> IF IsZero(secondValue) THEN ErrorSentinel
                   ELSE Divide(firstValue, secondValue)
    [] OTHER    -> secondValue

\* calculate that also refuses a zero dividend
calculateZeroDividend(firstValue, secondValue, op) ==
  CASE op = "+" -> Plus(firstValue, secondValue)
    [] op = "-" -> Minus(firstValue, secondValue)
    [] op = "*" -> Times(firstValue, secondValue)
    [] op = "/" -> IF IsZero(secondValue) \/ IsZero(firstValue) THEN ErrorSentinel
                   ELSE Divide(firstValue, secondValue)
    [] OTHER    -> secondValue

\* the switch of calculate: the 'Error' string on a division by zero
calculate(firstValue, secondValue, op) ==
  CASE op = "+" -> Plus(firstValue, secondValue)
    [] op = "-" -> Minus(firstValue, secondValue)
    [] op = "*" -> Times(firstValue, secondValue)
    [] op = "/" -> IF IsZero(secondValue) THEN ErrorSentinel
                   ELSE Divide(firstValue, secondValue)
    [] OTHER    -> secondValue

\* previousValue || 0 : 0, -0 and NaN are falsy
OrZero(x) == IF IsZero(x) \/ x.k = "NaN" THEN Zero ELSE x

(* ---------------------------- number to text --------------------------- *)

Error == <<"E", "r", "r", "o", "r">>

RECURSIVE IntDigits(_)
\* decimal digits of a natural number, no leading zeros
IntDigits(i) ==
  IF i < 10 THEN <<DigitChars[i + 1]>>
  ELSE Append(IntDigits(i \div 10), DigitChars[(i % 10) + 1])

RECURSIVE FracDigits(_, _)
\* decimal digits of r/d, 0 <= r < d, d a divisor of a power of ten
FracDigits(r, d) ==
  IF r = 0 THEN <<>>
  ELSE <<DigitChars[((10 * r) \div d) + 1]>> \o FracDigits((10 * r) % d, d)

\* String(x) of a number inside the range of the model: plain decimal notation,
\* "NaN" for NaN, "0" for both zeros
String(x) ==
  IF x.k = "NaN" THEN <<"N", "a", "N">>
  ELSE IF IsZero(x) THEN <<"0">>
  ELSE LET m == Abs(x.n)
           f == FracDigits(m % x.d, x.d)
       IN  (IF x.n < 0 THEN <<"-">> ELSE <<>>)
           \o IntDigits(m \div x.d)
           \o (IF f = <<>> THEN <<>> ELSE <<".">> \o f)

(* ---------------------------- text to number --------------------------- *)

IsDigit(c) == c \in Digits

DigitValue(c) == CHOOSE i \in 0..9 : DigitChars[i + 1] = c

RECURSIVE DigitRun(_, _)
\* how many digit characters s has from position i on
DigitRun(s, i) ==
  IF i > Len(s) \/ ~IsDigit(s[i]) THEN 0 ELSE 1 + DigitRun(s, i + 1)

RECURSIVE ValueOf(_, _, _)
\* the natural number written by the k digits of s that end before position i
ValueOf(s, i, k) ==
  IF k = 0 THEN 0 ELSE 10 * ValueOf(s, i - 1, k - 1) + DigitValue(s[i - 1])

\* parseFloat(s): the longest prefix [sign] digits [. digits] or [sign] . digits,
\* NaN when there is none
parseFloat(s) ==
  LET neg  == Len(s) >= 1 /\ s[1] = "-"
      i0   == IF Len(s) >= 1 /\ s[1] \in {"-", "+"} THEN 2 ELSE 1
      k1   == DigitRun(s, i0)
      dot  == i0 + k1 <= Len(s) /\ s[i0 + k1] = "."
      k2   == IF dot THEN DigitRun(s, i0 + k1 + 1) ELSE 0
      ip   == ValueOf(s, i0 + k1, k1)
      fp   == ValueOf(s, i0 + k1 + 1 + k2, k2)
      mag  == Norm(ip * Pow10(k2) + fp, Pow10(k2))
  IN  IF k1 + k2 = 0 THEN NaN
      ELSE IF mag.n = 0 THEN SignedZero(neg)
      ELSE IF neg THEN Num(-mag.n, mag.d) ELSE mag

(* ---------------------------- the component --------------------------- *)

\* the four useState cells, as one value
State == [display |-> display, previousValue |-> previousValue,
          operation |-> operation, waitingForNewValue |-> waitingForNewValue]

\* the useState initial values
Default == [display |-> <<"0">>, previousValue |-> null,
            operation |-> NoOperation, waitingForNewValue |-> FALSE]

\* what both handlers set when calculate returns 'Error'
ErrorState == [display |-> Error, previousValue |-> null,
               operation |-> NoOperation, waitingForNewValue |-> TRUE]

\* inputNumber that appends to a lone "0" instead of replacing it
inputNumberPrefixed(s, num) ==
  IF s.waitingForNewValue
  THEN [s EXCEPT !.display = <<num>>, !.waitingForNewValue = FALSE]
  ELSE [s EXCEPT !.display = Append(s.display, num)]

\* inputNumber that never looks at waitingForNewValue
inputNumberAppending(s, num) ==
  [s EXCEPT !.display = IF s.display = <<"0">> THEN <<num>>
                        ELSE Append(s.display, num)]

\* inputNumber that ignores a decimal point when display already has one
inputNumberSingleDot(s, num) ==
  IF s.waitingForNewValue
  THEN [s EXCEPT !.display = <<num>>, !.waitingForNewValue = FALSE]
  ELSE IF num = "." /\ \E i \in 1..Len(s.display) : s.display[i] = "."
  THEN s
  ELSE [s EXCEPT !.display = IF s.display = <<"0">> THEN <<num>>
                              ELSE Append(s.display, num)]

inputNumber(s, num) ==
  IF s.waitingForNewValue
  THEN [s EXCEPT !.display = <<num>>, !.waitingForNewValue = FALSE]
  ELSE [s EXCEPT !.display = IF s.display = <<"0">> THEN <<num>>
                              ELSE Append(s.display, num)]

\* inputOperation that does not evaluate the pending operation: the operand on
\* display replaces the stored one
inputOperationUnchained(s, nextOperation) ==
  [s EXCEPT !.previousValue = parseFloat(s.display),
            !.waitingForNewValue = TRUE,
            !.operation = nextOperation]

\* inputOperation without the return in the 'Error' branch: the lines after the
\* branch run too
inputOperationFallThrough(s, nextOperation) ==
  LET inputValue == parseFloat(s.display) IN
  IF s.previousValue = null
  THEN [s EXCEPT !.previousValue = inputValue,
                 !.waitingForNewValue = TRUE,
                 !.operation = nextOperation]
  ELSE IF s.operation # NoOperation
  THEN LET currentValue == OrZero(s.previousValue)
           newValue     == calculate(currentValue, inputValue, s.operation)
       IN  IF newValue = ErrorSentinel
           THEN [ErrorState EXCEPT !.operation = nextOperation]
           ELSE [display |-> String(newValue), previousValue |-> newValue,
                 operation |-> nextOperation, waitingForNewValue |-> TRUE]
  ELSE [s EXCEPT !.waitingForNewValue = TRUE, !.operation = nextOperation]

\* inputOperation without the setWaitingForNewValue(true) after the branches
inputOperationNoFlag(s, nextOperation) ==
  LET inputValue == parseFloat(s.display) IN
  IF s.previousValue = null
  THEN [s EXCEPT !.previousValue = inputValue,
                 !.operation = nextOperation]
  ELSE IF s.operation # NoOperation
  THEN LET currentValue == OrZero(s.previousValue)
           newValue     == calculate(currentValue, inputValue, s.operation)
       IN  IF newValue = ErrorSentinel
           THEN ErrorState
           ELSE [display |-> String(newValue), previousValue |-> newValue,
                 operation |-> nextOperation,
                 waitingForNewValue |-> s.waitingForNewValue]
  ELSE [s EXCEPT !.operation = nextOperation]

inputOperation(s, nextOperation) ==
  LET inputValue == parseFloat(s.display) IN
  IF s.previousValue = null
  THEN [s EXCEPT !.previousValue = inputValue,
                 !.waitingForNewValue = TRUE,
                 !.operation = nextOperation]
  ELSE IF s.operation # NoOperation
  THEN LET currentValue == OrZero(s.previousValue)
           newValue     == calculate(currentValue, inputValue, s.operation)
       IN  IF newValue = ErrorSentinel
           THEN ErrorState
           ELSE [display |-> String(newValue), previousValue |-> newValue,
                 operation |-> nextOperation, waitingForNewValue |-> TRUE]
  ELSE [s EXCEPT !.waitingForNewValue = TRUE, !.operation = nextOperation]

\* performCalculation that sets waitingForNewValue outside the if
performCalculationAlwaysWaiting(s) ==
  LET inputValue == parseFloat(s.display) IN
  IF s.previousValue # null /\ s.operation # NoOperation
  THEN LET newValue == calculate(s.previousValue, inputValue, s.operation)
       IN  IF newValue = ErrorSentinel
           THEN ErrorState
           ELSE [display |-> String(newValue), previousValue |-> null,
                 operation |-> NoOperation, waitingForNewValue |-> TRUE]
  ELSE [s EXCEPT !.waitingForNewValue = TRUE]

\* performCalculation without the setOperation(null) after a result
performCalculationKeepsOperation(s) ==
  LET inputValue == parseFloat(s.display) IN
  IF s.previousValue # null /\ s.operation # NoOperation
  THEN LET newValue == calculate(s.previousValue, inputValue, s.operation)
       IN  IF newValue = ErrorSentinel
           THEN ErrorState
           ELSE [display |-> String(newValue), previousValue |-> null,
                 operation |-> s.operation, waitingForNewValue |-> TRUE]
  ELSE s

\* performCalculation without the setWaitingForNewValue(true) after a result
performCalculationNoFlag(s) ==
  LET inputValue == parseFloat(s.display) IN
  IF s.previousValue # null /\ s.operation # NoOperation
  THEN LET newValue == calculate(s.previousValue, inputValue, s.operation)
       IN  IF newValue = ErrorSentinel
           THEN ErrorState
           ELSE [display |-> String(newValue), previousValue |-> null,
                 operation |-> NoOperation,
                 waitingForNewValue |-> s.waitingForNewValue]
  ELSE s

performCalculation(s) ==
  LET inputValue == parseFloat(s.display) IN
  IF s.previousValue # null /\ s.operation # NoOperation
  THEN LET newValue == calculate(s.previousValue, inputValue, s.operation)
       IN  IF newValue = ErrorSentinel
           THEN ErrorState
           ELSE [display |-> String(newValue), previousValue |-> null,
                 operation |-> NoOperation, waitingForNewValue |-> TRUE]
  ELSE s

\* clearAll without the setWaitingForNewValue(false)
clearAllKeepsFlag(s) == [Default EXCEPT !.waitingForNewValue = s.waitingForNewValue]

clearAll(s) == Default

\* backspace with the length test off by one
backspaceOffByOne(s) ==
  IF Len(s.display) > 2
  THEN [s EXCEPT !.display = SubSeq(s.display, 1, Len(s.display) - 1)]
  ELSE [s EXCEPT !.display = <<"0">>]

\* backspace without the length test
backspaceUnguarded(s) ==
  [s EXCEPT !.display = SubSeq(s.display, 1, Len(s.display) - 1)]

\* backspace that also ends the wait for a new value
backspaceResetsFlag(s) ==
  IF Len(s.display) > 1
  THEN [s EXCEPT !.display = SubSeq(s.display, 1, Len(s.display) - 1),
                 !.waitingForNewValue = FALSE]
  ELSE [s EXCEPT !.display = <<"0">>, !.waitingForNewValue = FALSE]

backspace(s) ==
  IF Len(s.display) > 1
  THEN [s EXCEPT !.display = SubSeq(s.display, 1, Len(s.display) - 1)]
  ELSE [s EXCEPT !.display = <<"0">>]

(* ---------------------------- dispatch --------------------------------- *)

\* labels of the on-screen buttons
Buttons == NumberButtons \cup Operators \cup {"=", "C", "Backspace"}

\* the onClick of the button with this label
onClick(s, button) ==
  CASE button = "C"           -> clearAll(s)
    [] button = "Backspace"   -> backspace(s)
    [] button \in Operators   -> inputOperation(s, button)
    [] button = "="           -> performCalculation(s)
    [] OTHER                  -> inputNumber(s, button)

\* the handler call a key makes, as the label of the button that makes the
\* same call; "none" for a key handleKeyPress ignores
KeyCall(key) ==
  IF key \in Digits THEN key
  ELSE IF key \in Operators THEN key
  ELSE IF key = "Enter" \/ key = "=" THEN "="
  ELSE IF key = "Backspace" THEN "Backspace"
  ELSE IF key = "Escape" THEN "C"
  ELSE "none"

handleKeyPress(s, key) ==
  IF KeyCall(key) = "none" THEN s ELSE onClick(s, KeyCall(key))

\* the result of the calculate call the handler behind this button makes from s
\* (Zero when it makes none)
Calculated(s, button) ==
  IF /\ s.previousValue # null
     /\ s.operation # NoOperation
     /\ button \in Operators \cup {"="}
  THEN calculate(IF button = "=" THEN s.previousValue ELSE OrZero(s.previousValue),
                 parseFloat(s.display), s.operation)
  ELSE Zero

\* the handler's numbers are numbers the model represents
InModel(s, button) == Calculated(s, button) # OutOfModel

Magnitude(x) == IF x.k = "num" THEN (Abs(x.n) + x.d - 1) \div x.d ELSE 0

\* the window of the general specification: typed displays of at most MaxLen
\* characters, results of magnitude at most MaxOperand
InWindow(s, button) ==
  /\ button \in NumberButtons =>
       (s.waitingForNewValue \/ Len(s.display) < MaxLen)
  /\ Magnitude(Calculated(s, button)) <= MaxOperand

\* the setState calls of one handler run, committed together
Commit(s) ==
  /\ display' = s.display
  /\ previousValue' = s.previousValue
  /\ operation' = s.operation
  /\ waitingForNewValue' = s.waitingForNewValue

(* ---------------------------- general specification -------------------- *)

\* keys pressed in the general specification; "a" stands for any other key
Keys == (Pressed \ {"."}) \cup Operators \cup {".", "Enter", "=", "Backspace", "Escape", "a"}

Init ==
  /\ display = Default.display
  /\ previousValue = Default.previousValue
  /\ operation = Default.operation
  /\ waitingForNewValue = Default.waitingForNewValue
  /\ calls = <<>>

\* a pointer click on a button; calls keeps the last handler call
Click(button) ==
  /\ InModel(State, button)
  /\ InWindow(State, button)
  /\ Commit(onClick(State, button))
  /\ calls' = <<button>>

\* a keydown event on window
KeyDown(key) ==
  /\ KeyCall(key) # "none"
  /\ InModel(State, KeyCall(key))
  /\ InWindow(State, KeyCall(key))
  /\ Commit(handleKeyPress(State, key))
  /\ calls' = <<KeyCall(key)>>

\* a keydown event handleKeyPress has no branch for
KeyIgnored(key) ==
  /\ KeyCall(key) = "none"
  /\ Commit(handleKeyPress(State, key))
  /\ UNCHANGED calls

Next ==
  \/ \E button \in (Buttons \ Digits) \cup Pressed : Click(button)
  \/ \E key \in Keys : KeyDown(key)
  \/ \E key \in Keys : KeyIgnored(key)

Spec == Init /\ [][Next]_vars

(* ---------------------------- digit-only specification ----------------- *)

\* a click on a number button; calls keeps every handler call
ClickNumber(num) ==
  /\ Len(calls) < MaxDigits
  /\ Commit(onClick(State, num))
  /\ calls' = Append(calls, num)

NextDigits == \E num \in NumberButtons : ClickNumber(num)

SpecDigits == Init /\ [][NextDigits]_vars

(* ---------------------------- scripted specification ------------------- *)

\* the kind of handler behind a button
Kind(button) ==
  IF button \in NumberButtons THEN "digit"
  ELSE IF button \in Operators THEN "operator"
  ELSE button

\* the click sequences of the worked examples: a op b =, a op b op c =,
\* a op b = op c =, a op b = d
Shapes ==
  { <<"digit", "operator", "digit", "=">>,
    <<"digit", "operator", "digit", "operator", "digit", "=">>,
    <<"digit", "operator", "digit", "=", "operator", "digit", "=">>,
    <<"digit", "operator", "digit", "=", "digit">> }

\* the calls made so far, followed by this button, begin one of the shapes
Scripted(button) ==
  \E shape \in Shapes :
    /\ Len(calls) < Len(shape)
    /\ \A i \in 1..Len(calls) : Kind(calls[i]) = shape[i]
    /\ Kind(button) = shape[Len(calls) + 1]

\* a click that continues a worked example; calls keeps every handler call
ClickScripted(button) ==
  /\ Scripted(button)
  /\ InModel(State, button)
  /\ Commit(onClick(State, button))
  /\ calls' = Append(calls, button)

NextSeq == \E button \in Buttons : ClickScripted(button)

SpecSeq == Init /\ [][NextSeq]_vars

(* ---------------------------- properties ------------------------------- *)

Last(s) == s[Len(s)]

\* the number a digit button stands for
DigitNumber(c) == Num(DigitValue(c), 1)

\* a op b in exact rational arithmetic, b not zero when op is "/"
Exactly(a, b, op) ==
  CASE op = "+" -> Norm(a.n * b.d + b.n * a.d, a.d * b.d)
    [] op = "-" -> Norm(a.n * b.d - b.n * a.d, a.d * b.d)
    [] op = "*" -> Norm(a.n * b.n, a.d * b.d)
    [] op = "/" -> Norm(a.n * b.d, a.d * b.n)

DivisionByZero(b, op) == op = "/" /\ b.n = 0

\* the display holds the text of the rational r, a number String can print
Shows(r) == InRange(r) /\ display = String(r)

C2_FourFunctions ==
  (/\ Len(calls) = 4
   /\ calls[4] = "="
   /\ \A i \in {1, 3} : calls[i] \in Digits) =>
    LET a == DigitNumber(calls[1])
        b == DigitNumber(calls[3])
    IN  IF DivisionByZero(b, calls[2])
        THEN display = Error
        ELSE Shows(Exactly(a, b, calls[2])) /\ display # Error

\* 2 - 3 = shows -1
C2_Witness ==
  calls = <<"2", "-", "3", "=">> /\ display = <<"-", "1">>

RECURSIVE DropLeadingZeros(_)
\* s without its leading "0" characters, the last character kept
DropLeadingZeros(s) ==
  IF Len(s) > 1 /\ s[1] = "0" THEN DropLeadingZeros(Tail(s)) ELSE s

\* C3 as stated: after a non-empty sequence of digit calls from the default
\* state, display is the concatenation of the digits.
C3_Concatenation == Len(calls) >= 1 => display = calls

\* C3 amended: after a non-empty sequence of digit calls from the default state,
\* display is the concatenation of the digits without its leading "0"
\* characters (every lone "0" on display is replaced, not only the default one).
C3_ConcatenationWithoutLeadingZeros ==
  Len(calls) >= 1 => display = DropLeadingZeros(calls)

\* 0, 0, 7, 1 shows 71
C3_Witness ==
  calls = <<"0", "0", "7", "1">> /\ display = <<"7", "1">>

\* C4: after clearAll the state is the default state, whatever it was before.
C4_ClearYieldsDefault == calls = <<"C">> => State = Default

\* clearAll has run and left the default state
C4_Witness == calls = <<"C">> /\ State = Default

\* C5: an operator or equals call that evaluates a pending division by a display
\* that parses to zero leaves exactly the Error state, the operator just
\* pressed not recorded.
C5_DivisionByZeroEntersError ==
  [][(/\ previousValue # null
      /\ operation = "/"
      /\ IsZero(parseFloat(display))
      /\ \E button \in Operators \cup {"="} : calls' = <<button>>)
     => (/\ display' = Error
         /\ previousValue' = null
         /\ operation' = NoOperation
         /\ waitingForNewValue' = TRUE)]_vars

\* the Error state, entered by an operator call
C5_Witness == State = ErrorState /\ calls = <<"*">>

\* C6: from the Error state, a digit call d leaves display = d, nothing pending
\* and waitingForNewValue false.
C6_DigitAfterError ==
  [][(/\ State = ErrorState
      /\ Len(calls') = Len(calls) + 1
      /\ Last(calls') \in NumberButtons)
     => (/\ display' = <<Last(calls')>>
         /\ previousValue' = null
         /\ operation' = NoOperation
         /\ waitingForNewValue' = FALSE)]_vars

\* 6 / 0 = 7 shows 7
C6_Witness ==
  /\ calls = <<"6", "/", "0", "=", "7">>
  /\ State = [Default EXCEPT !.display = <<"7">>]

\* C7: equals with the pending operand or the pending operator absent changes
\* none of the four cells.
C7_EqualsNoOp ==
  [][(/\ previousValue = null \/ operation = NoOperation
      /\ calls' = <<"=">>)
     => UNCHANGED <<display, previousValue, operation, waitingForNewValue>>]_vars

\* equals has run on a typed 5 with nothing pending
C7_Witness ==
  /\ calls = <<"=">>
  /\ State = [Default EXCEPT !.display = <<"5">>]

\* C8: backspace sets display to "0" when it has one character and removes
\* exactly the last character otherwise.
C8_Backspace ==
  [][calls' = <<"Backspace">>
     => display' = IF Len(display) = 1 THEN <<"0">>
                   ELSE SubSeq(display, 1, Len(display) - 1)]_vars

\* backspace has run on a display of several characters and left its first
C8_Witness == calls = <<"Backspace">> /\ display = <<"5">> /\ ~waitingForNewValue

\* optional sign, then digits and decimal points only, at least one
IsNumeral(s) ==
  LET body == IF Len(s) >= 1 /\ s[1] = "-" THEN Tail(s) ELSE s
  IN  Len(body) >= 1 /\ \A i \in 1..Len(body) : body[i] \in NumberButtons

\* C9: display is a numeral with optional decimal point or the token Error.
C9_DisplayWellFormed == display = Error \/ IsNumeral(display)

\* C10: display is never empty, and is "0" in the initial state.
C10_DisplayNonEmpty ==
  /\ Len(display) >= 1
  /\ calls = <<>> => display = <<"0">>

\* backspace has run and left the lone 0 on display
C10_Witness == calls = <<"Backspace">> /\ display = <<"0">> /\ ~waitingForNewValue

\* the last handler call was made with one of these buttons
Called(buttons) == \E button \in buttons : calls' = <<button>>

\* C11: from a state whose display is Error, an operator, equals or backspace
\* call leaves display Error and nothing pending.
C11_ErrorLeftOnlyByDigitOrClear ==
  [][(display = Error /\ Called(Operators \cup {"=", "Backspace"}))
     => (/\ display' = Error
         /\ previousValue' = null
         /\ operation' = NoOperation)]_vars

\* the keys the keyboard contract lists
ListedKeys == NumberButtons \cup Operators \cup {"Enter", "=", "Backspace", "Escape"}

\* the on-screen control a listed key corresponds to
ControlOf(key) ==
  CASE key = "Enter"  -> "="
    [] key = "Escape" -> "C"
    [] OTHER          -> key

\* C12: in every reachable state, every listed key leads to the state the click
\* on its on-screen control leads to.
C12_KeyboardSameAsClick ==
  \A key \in ListedKeys : handleKeyPress(State, key) = onClick(State, ControlOf(key))

\* C13: a step that changes display to Error is an operator or equals call made
\* with operator / pending and a display that parses to zero.
C13_ErrorOnlyByDivisionByZero ==
  [][(display # Error /\ display' = Error)
     => (/\ Called(Operators \cup {"="})
         /\ previousValue # null
         /\ operation = "/"
         /\ IsZero(parseFloat(display)))]_vars

\* the Error state, entered by an equals call
C13_Witness == State = ErrorState /\ calls = <<"=">>

\* C14 as stated: after every operator call and after every equals call
\* waitingForNewValue is true.
C14_WaitingAfterOperatorOrEquals ==
  (\E button \in Operators \cup {"="} : calls = <<button>>) => waitingForNewValue

\* C14 amended: waitingForNewValue is true after every operator call, and after
\* every equals call made with both an operand and an operator pending.
C14_WaitingAfterOperatorOrEvaluation ==
  [][(\/ Called(Operators)
      \/ (Called({"="}) /\ previousValue # null /\ operation # NoOperation))
     => waitingForNewValue']_vars

\* 5 + 5 = has run: 10 on display, waiting for a new value
C14_Witness ==
  /\ calls = <<"=">>
  /\ display = <<"1", "0">>
  /\ waitingForNewValue

\* C15: with operand p and operator q pending, an operator call op whose result
\* r = calculate(p, parseFloat(display), q) is not the error sentinel leaves
\* display = String(r), operand r, operator op and waitingForNewValue true, and
\* so the display an equals call would leave.
C15_OperatorUsesStoredOperand ==
  (previousValue # null /\ operation # NoOperation) =>
    LET r == calculate(previousValue, parseFloat(display), operation)
    IN  (r # ErrorSentinel /\ r # OutOfModel /\ InModel(State, "+")) =>
          \A op \in Operators :
            /\ inputOperation(State, op) =
                 [display |-> String(r), previousValue |-> r,
                  operation |-> op, waitingForNewValue |-> TRUE]
            /\ inputOperation(State, op).display = performCalculation(State).display

\* C16: backspace leaves the pending operand, the pending operator and
\* waitingForNewValue as they were.
C16_BackspaceOnlyDisplay ==
  [][Called({"Backspace"})
     => UNCHANGED <<previousValue, operation, waitingForNewValue>>]_vars

\* backspace has run with 5 + pending and the wait for a new value on
C16_Witness ==
  /\ calls = <<"Backspace">>
  /\ previousValue = Num(5, 1)
  /\ operation = "+"
  /\ waitingForNewValue
  /\ display = <<"0">>

\* C18: with waitingForNewValue false and a display other than "0", the digit
\* call "." appends a decimal point whether or not display has one already, and
\* a display with several decimal points is reached.
C18_RepeatedDecimalPoint ==
  [][(/\ ~waitingForNewValue
      /\ display # <<"0">>
      /\ Len(calls') = Len(calls) + 1
      /\ Last(calls') = ".")
     => display' = Append(display, ".")]_vars

\* 1 . 2 . 3 shows 1.2.3
C18_Witness ==
  /\ calls = <<"1", ".", "2", ".", "3">>
  /\ display = <<"1", ".", "2", ".", "3">>

\* C19: an operand is pending exactly when an operator is pending.
C19_OperandIffOperator ==
  (previousValue # null) <=> (operation # NoOperation)

\* an operator call has stored the operand 5 and the operator /
C19_Witness ==
  /\ calls = <<"/">>
  /\ previousValue = Num(5, 1)
  /\ operation = "/"

\* C20: a, op1, b, =, op2, c, = on single digits without a division by zero ends
\* with the text of (a op1 b) op2 c on display, and a, op, b, =, d ends with d
\* alone on display and nothing pending.
C20_ResultReusedOrDiscarded ==
  /\ (/\ Len(calls) = 7
      /\ \A i \in {1, 3, 6} : calls[i] \in Digits) =>
       LET a == DigitNumber(calls[1])
           b == DigitNumber(calls[3])
           c == DigitNumber(calls[6])
       IN  (~DivisionByZero(b, calls[2]) /\ ~DivisionByZero(c, calls[5])) =>
             Shows(Exactly(Exactly(a, b, calls[2]), c, calls[5]))
  /\ (/\ Len(calls) = 5
      /\ calls[4] = "="
      /\ calls[5] \in NumberButtons
      /\ \A i \in {1, 3} : calls[i] \in Digits
      /\ ~DivisionByZero(DigitNumber(calls[3]), calls[2])) =>
       State = [Default EXCEPT !.display = <<calls[5]>>]

\* 2 + 3 = * 4 = shows 20
C20_Witness ==
  calls = <<"2", "+", "3", "=", "*", "4", "=">> /\ display = <<"2", "0">>

====
